---------------------------- MODULE Spec2Model ----------------------------
(***************************************************************************)
(* A model of ankku (src/main.go, the second program of the file, lines    *)
(* 173-470): the daemon that polls a git remote, checks the tracked branch *)
(* out into an application directory and supervises the "web" process.     *)
(*                                                                         *)
(*   - main (443-470) starts the supervisor goroutine, runs Reload(true),  *)
(*     starts a cron that runs Reload(false) on every tick, then waits for *)
(*     a signal and calls Stop.                                            *)
(*   - Reload (424-435) = GitPull (231-265) + reloadImpl (309-334).        *)
(*   - StartDaemon (351-391) is the supervisor loop: one select over the   *)
(*     command channel, the current done channel and the stop channel.     *)
(*   - The operating system: every started command is a process group      *)
(*     (Setpgid, 337) whose members die some time after SIGKILL is sent.   *)
(***************************************************************************)
EXTENDS Integers, Sequences, FiniteSets, TLC

\* ------------------------------------------------------------------ bounds
\* Revisions of the remote branch are 1..MaxRev; the remote moves forward.
MaxRev == 2
\* Number of cron ticks that fire (each runs Reload(false) in its own goroutine).
MaxTicks == 2

Revs == 1..MaxRev
NoBranch == 0
Ticks == 1..MaxTicks
Reloaders == 0..MaxTicks

\* ----------------------------------------------------------- program data
\* The retry bound of the supervisor loop (line 369: timeFailed < 3).
RetryLimit == 3

\* The "web" command line of each revision's Procfile, as formatted into the
\* bash script by reloadImpl (lines 322-329).
ScriptText == <<"web-1", "web-2", "web-3", "web-4", "web-5", "web-6">>
Script(rev) == ScriptText[rev]

\* The environment's choice of programs: the web command of an even revision
\* always exits non-zero; the one of an odd revision may run on, exit 0 or
\* exit non-zero.
Crashes(script) == script \in {"web-2", "web-4", "web-6"}

\* exec.LookPath as exec.Command uses it: a bare name is resolved along PATH,
\* a name with a slash is kept.
LookPath(name) == IF name = "bash" THEN "/bin/bash" ELSE name

\* exec.Command(name, arg...): Path is the resolved name, Args is name
\* followed by arg (argv[0] included).  Process is nil (0) until Start.
Command(name, arg) ==
    [Path |-> LookPath(name), Args |-> <<name>> \o arg, Process |-> 0]

NoCmd == [Path |-> "", Args |-> <<>>, Process |-> 0]

VARIABLES
    remoteTip,    \* the tip of the branch in the remote repository
    localBranch,  \* the local branch's target (0: no local branch)
    appDir,       \* the revision checked out in applicationDir (0: none)
    lastPulled,   \* history: remoteCommit of the last GitPull that returned nil error
    rl,           \* the Reload calls: 0 is main's Reload(true), 1.. the cron ticks
    mainPc,       \* where main() is
    daemon,       \* the daemon process: "up"; "fatal" (log.Fatalf in the loop);
                  \* "nilpanic" (the loop's panic on a nil wait result);
                  \* "panic" (panic(err) after a Reload); "exited" (main returned)
    supPc,        \* the supervisor goroutine: "select", "ack", "returned"
    command,      \* StartDaemon's command (NoCmd: nil)
    done,         \* StartDaemon's done channel (0: nil), channels are numbered
    timeFailed,   \* StartDaemon's timeFailed
    runs          \* the command.Start() calls: their process groups and waiters

vars == <<remoteTip, localBranch, appDir, lastPulled, rl, mainPc,
          daemon, supPc, command, done, timeFailed, runs>>

gitVars == <<remoteTip, localBranch, appDir, lastPulled>>
supVars == <<supPc, command, done, timeFailed, runs>>

IdleReload == [pc |-> "idle", commit |-> 0, upd |-> FALSE, cmd |-> NoCmd, seq |-> FALSE]

\* The daemon starts on a fresh mirror or on the mirror and application
\* directory a previous run left (NewRepository opens an existing one,
\* 213-219); the remote is at its first revision and may move at once.
Init ==
    /\ remoteTip = 1
    /\ localBranch \in {NoBranch, 1}
    /\ appDir = localBranch
    /\ lastPulled = 0
    /\ rl = [r \in Reloaders |-> IF r = 0 THEN [IdleReload EXCEPT !.pc = "pull"]
                                          ELSE IdleReload]
    /\ mainPc = "reload"
    /\ daemon = "up"
    /\ supPc = "select"
    /\ command = NoCmd
    /\ done = 0
    /\ timeFailed = 0
    /\ runs = <<>>

Up == daemon = "up"

\* ---------------------------------------------------------------- remote
\* Someone pushes a new revision to the remote branch.
Push ==
    /\ Up
    /\ remoteTip < MaxRev
    /\ remoteTip' = remoteTip + 1
    /\ UNCHANGED <<localBranch, appDir, lastPulled, rl, mainPc, daemon>>
    /\ UNCHANGED supVars

\* ----------------------------------------------------------------- Reload
Force(r) == r = 0

\* What a Reload that returns an error does to the daemon: main panics on the
\* error of the initial Reload (452-455); a cron job panics too (459-462), and
\* whether that ends the process depends on the cron library's version (it may
\* recover a job's panic), so both outcomes are kept.
ErrOutcomes(r) == IF Force(r) THEN {"panic"} ELSE {"panic", "up"}

\* GitPull, first half (232-247): look the remote up, fetch, resolve the
\* remote-tracking branch and its commit.  A successful fetch moves the
\* remote-tracking ref to the remote's tip and the call reads it back at
\* once, so remoteCommit is the remote's tip at the fetch; the ref itself is
\* read nowhere else and is not kept as a variable.
FetchFailures == {"none", "remote", "fetch", "ref", "commit"}

GitPullFetch(r, f, d) ==
    /\ Up
    /\ rl[r].pc = "pull"
    /\ IF f = "none"
         THEN /\ rl' = [rl EXCEPT ![r].pc = "fetched", ![r].commit = remoteTip]
              /\ daemon' = daemon
         ELSE /\ rl' = [rl EXCEPT ![r].pc = "ret_err"]
              /\ daemon' = d
    /\ UNCHANGED <<remoteTip, localBranch, appDir, lastPulled, mainPc>>
    /\ UNCHANGED supVars

\* GitPull, second half (248-264), as a function of the local branch, the
\* remote commit and the call that fails (if any): the returned hasUpdate and
\* err, and the local branch afterwards.
UpdateFailures ==
    {"none", "lookupBranch", "createBranch", "setUpstream", "localCommit", "setTarget"}

\* A GitPull that reports the update and leaves the branch where it was.
GitPullLocalNoSetTarget(local, remoteCommit, f) ==
    IF local = NoBranch \/ f = "lookupBranch"
      THEN IF f = "createBranch" \/ local # NoBranch
             THEN [hasUpdate |-> FALSE, err |-> TRUE, local |-> local]
             ELSE [hasUpdate |-> TRUE, err |-> (f = "setUpstream"), local |-> remoteCommit]
      ELSE IF f = "localCommit"
             THEN [hasUpdate |-> FALSE, err |-> TRUE, local |-> local]
             ELSE IF local # remoteCommit
                    THEN [hasUpdate |-> TRUE, err |-> (f = "setTarget"), local |-> local]
                    ELSE [hasUpdate |-> FALSE, err |-> FALSE, local |-> local]

GitPullLocal(local, remoteCommit, f) ==
    IF local = NoBranch \/ f = "lookupBranch"
      THEN \* CreateBranch(force = false) fails when the branch exists
           IF f = "createBranch" \/ local # NoBranch
             THEN [hasUpdate |-> FALSE, err |-> TRUE, local |-> local]
             ELSE [hasUpdate |-> TRUE, err |-> (f = "setUpstream"), local |-> remoteCommit]
      ELSE IF f = "localCommit"
             THEN [hasUpdate |-> FALSE, err |-> TRUE, local |-> local]
             ELSE IF local # remoteCommit
                    THEN IF f = "setTarget"
                           THEN [hasUpdate |-> TRUE, err |-> TRUE, local |-> local]
                           ELSE [hasUpdate |-> TRUE, err |-> FALSE, local |-> remoteCommit]
                    ELSE [hasUpdate |-> FALSE, err |-> FALSE, local |-> local]

\* A Reload that looks at updated and force before it looks at the error.
ReloadBranchOnError(res, force) ==
    IF res.hasUpdate \/ force THEN "impl"
    ELSE IF res.err THEN "ret_err"
    ELSE "ret_noop"

\* A Reload that goes on to reloadImpl whether or not anything changed.
ReloadBranchAlways(res, force) ==
    IF res.err THEN "ret_err" ELSE "impl"

\* Reload's branch on GitPull's result (427-434).
ReloadBranch(res, force) ==
    IF res.err THEN "ret_err"
    ELSE IF res.hasUpdate \/ force THEN "impl"
    ELSE "ret_noop"

GitPullUpdate(r, f, d) ==
    /\ Up
    /\ rl[r].pc = "fetched"
    /\ LET res == GitPullLocal(localBranch, rl[r].commit, f)
           next == ReloadBranch(res, Force(r))
       IN /\ localBranch' = res.local
          /\ lastPulled' = IF res.err THEN lastPulled ELSE rl[r].commit
          /\ rl' = [rl EXCEPT ![r].pc = next, ![r].commit = 0,
                                  ![r].upd = (next # "ret_err" /\ res.hasUpdate)]
          /\ daemon' = IF next = "ret_err" THEN d ELSE daemon
    /\ UNCHANGED <<remoteTip, appDir, mainPc>>
    /\ UNCHANGED supVars

\* reloadImpl up to the send (310-331): check the local branch out into the
\* application directory, set the virtualenv up, read the Procfile of the
\* checked-out tree and build the command.
ImplFailures == {"none", "checkout", "venv", "manifest"}

CheckoutToDir(dir, local, f) ==
    IF local = NoBranch \/ f = "checkout" THEN dir ELSE local

reloadImpl(r, f, d) ==
    /\ Up
    /\ rl[r].pc = "impl"
    /\ appDir' = CheckoutToDir(appDir, localBranch, f)
    /\ IF f = "none" /\ localBranch # NoBranch
         THEN /\ rl' = [rl EXCEPT ![r].pc = "send", ![r].upd = FALSE,
                                  ![r].cmd = Command("bash", <<"-c", Script(appDir')>>)]
              /\ daemon' = daemon
         ELSE /\ rl' = [rl EXCEPT ![r].pc = "ret_err", ![r].upd = FALSE]
              /\ daemon' = d
    /\ UNCHANGED <<remoteTip, localBranch, lastPulled, mainPc>>
    /\ UNCHANGED supVars


\* ------------------------------------------------------- operating system
\* A run is one command.Start() of the supervisor loop together with the
\* goroutine that waits for it (386-388):
\*   st    "alive"   the group (bash and what it spawned) runs
\*         "dying"   SIGKILL was sent to the group, its members still run
\*         "gone"    the leader exited and was reaped by Wait, no member left
\*         "nostart" Start failed: there is no process (command.Process is nil)
\*   wres  the waiter: "wait" in command.Wait(); "nil", "exit" (*exec.ExitError)
\*         or "err" (any other error) when blocked sending that on its done
\*         channel; "taken" once the loop received it
\*   chan  the done channel the waiter sends on
RunIds == 1..Len(runs)

Live(run) == run.st \in {"alive", "dying"}

ExitCodes(run) ==
    IF Crashes(run.Args[Len(run.Args)]) THEN {"nonzero"} ELSE {"zero", "nonzero"}

\* cmd.Wait()'s result for an exit status (os/exec: nil for status 0, an
\* *exec.ExitError otherwise, also for a death by signal).
WaitResult(code) == IF code = "zero" THEN "nil" ELSE "exit"

\* The leader exits by itself; the waiter's Wait returns (reaping it).
ProcExit(i, code) ==
    /\ Up
    /\ runs[i].st = "alive"
    /\ code \in ExitCodes(runs[i])
    /\ runs' = [runs EXCEPT ![i].st = "gone", ![i].wres = WaitResult(code)]
    /\ UNCHANGED <<supPc, command, done, timeFailed, rl, mainPc, daemon>>
    /\ UNCHANGED gitVars

\* The table keeps the runs of the current done channel and, of the earlier
\* channels, the groups that still have members.  A run of an earlier channel
\* whose group is gone is dropped: its waiter has ended or stays blocked
\* sending on a channel that the loop does not receive from any more.
Without(rs, i) == SubSeq(rs, 1, i - 1) \o SubSeq(rs, i + 1, Len(rs))
Renumber(cmd, i) ==
    IF cmd.Process > i THEN [cmd EXCEPT !.Process = cmd.Process - 1] ELSE cmd

\* SIGKILL takes effect on every member of the group; Wait returns an
\* *exec.ExitError for the death by signal.
KillEffect(i) ==
    /\ Up
    /\ runs[i].st = "dying"
    /\ IF runs[i].chan = done
         THEN /\ runs' = [runs EXCEPT ![i].st = "gone", ![i].wres = WaitResult("signal")]
              /\ command' = command
         ELSE /\ runs' = Without(runs, i)
              /\ command' = Renumber(command, i)
    /\ UNCHANGED <<supPc, done, timeFailed, rl, mainPc, daemon>>
    /\ UNCHANGED gitVars

\* ------------------------------------------------------------- supervisor
\* mayKillCommand (341-348): with a started command, SIGKILL goes to the
\* process group of command.Process.Pid and nothing is waited for.  Once the
\* leader was reaped Getpgid fails, its error is dropped, and the signal does
\* not reach the group.
mayKillCommand(cmd, rs) ==
    IF cmd # NoCmd /\ cmd.Process # 0 /\ rs[cmd.Process].st \in {"alive", "dying"}
      THEN [rs EXCEPT ![cmd.Process].st = "dying"]
      ELSE rs

\* The retry test as "the first 2 retries only".
RetryAllowedTwo(tf) == tf < RetryLimit - 1

\* A retry test that lets one more failure through.
RetryAllowedOffByOne(tf) == tf <= RetryLimit

\* The retry test of line 369 (an ExitError never has exit code 0).
RetryAllowed(tf) == tf < RetryLimit

\* The command of a retry (372).
Relaunch(cmd) == Command(cmd.Path, cmd.Args)

\* make(chan error) (361): a channel no waiter holds yet.
MakeChan(d) == d + 1

\* A loop tail that starts nothing.
StartRunsNothing(cmd, ch, rs, ok) == rs

\* The loop's tail (384-388): setupCommand, command.Start() and the waiter.
\* Start of a command that was started before fails ("already started") and
\* its Wait fails too ("Wait was already called"): the waiter sends that
\* error.  Otherwise Start succeeds (ok) or fails, leaving Process nil, and
\* Wait of a command that was not started is an error as well.
StartRuns(cmd, ch, rs, ok) ==
    IF cmd.Process # 0
      THEN [rs EXCEPT ![cmd.Process].wres = "err"]
      ELSE Append(rs, [Path |-> cmd.Path, Args |-> cmd.Args, chan |-> ch,
                       st |-> IF ok THEN "alive" ELSE "nostart",
                       wres |-> IF ok THEN "wait" ELSE "err"])

StartCmd(cmd, rs, ok) ==
    IF cmd.Process = 0 /\ ok THEN [cmd EXCEPT !.Process = Len(rs) + 1] ELSE cmd

\* The runs that stay in the table when the loop moves on to channel ch.
Kept(rs, ch) == SelectSeq(rs, LAMBDA run : run.chan = ch \/ Live(run))

\* case newCommand := <-app.commandChannel (358-364), then the tail.
LaunchConsume(r, ok) ==
    /\ Up
    /\ supPc = "select"
    /\ rl[r].pc = "send"
    /\ LET ch == MakeChan(done)
           killed == Kept(mayKillCommand(command, runs), ch)
       IN /\ done' = ch
          /\ timeFailed' = 0
          /\ runs' = StartRuns(rl[r].cmd, ch, killed, ok)
          /\ command' = StartCmd(rl[r].cmd, killed, ok)
    /\ rl' = [rl EXCEPT ![r].pc = "ret_sent", ![r].cmd = NoCmd]
    /\ UNCHANGED <<supPc, mainPc, daemon>>
    /\ UNCHANGED gitVars

\* A loop that treats any wait error like a non-zero exit status.
OnExitRetriesErrors(msg, tf) ==
    IF msg \in {"exit", "err"} THEN (IF RetryAllowed(tf) THEN "retry" ELSE "again")
    ELSE "nilpanic"

\* What the loop does with a received wait result (367-376): "retry" and
\* "again" fall through to the tail; a nil error (exit status 0) takes the
\* default case, where err.Error() on the nil interface panics before
\* log.Fatalf is entered ("nilpanic"); any other error is log.Fatalf ("fatal").
OnExit(msg, tf) ==
    IF msg = "exit" THEN (IF RetryAllowed(tf) THEN "retry" ELSE "again")
    ELSE IF msg = "nil" THEN "nilpanic"
    ELSE "fatal"

\* case err := <-done (365-377), then the tail.
ExitConsume(i, ok) ==
    /\ Up
    /\ supPc = "select"
    /\ done # 0
    /\ runs[i].chan = done
    /\ runs[i].wres \in {"nil", "exit", "err"}
    /\ LET taken == [runs EXCEPT ![i].wres = "taken"]
           what == OnExit(runs[i].wres, timeFailed)
           cmd == IF what = "retry" THEN Relaunch(command) ELSE command
       IN IF what \in {"retry", "again"}
            THEN /\ timeFailed' = IF what = "retry" THEN timeFailed + 1 ELSE timeFailed
                 /\ runs' = StartRuns(cmd, done, taken, ok)
                 /\ command' = StartCmd(cmd, taken, ok)
                 /\ daemon' = daemon
            ELSE /\ daemon' = what
                 /\ runs' = taken
                 /\ UNCHANGED <<timeFailed, command>>
    /\ UNCHANGED <<supPc, done, rl, mainPc>>
    /\ UNCHANGED gitVars

\* case out := <-app.stopChannel (378-380): Stop's send is received and the
\* current command is killed.
StopConsume ==
    /\ Up
    /\ supPc = "select"
    /\ mainPc = "stop_send"
    /\ runs' = mayKillCommand(command, runs)
    /\ supPc' = "ack"
    /\ mainPc' = "stop_wait"
    /\ UNCHANGED <<command, done, timeFailed, rl, daemon>>
    /\ UNCHANGED gitVars

\* A stop case that falls back into the loop instead of returning.
AfterAckLoops == "select"

\* After the acknowledgment the goroutine returns (382).
AfterAck == "returned"

\* out <- true; return (381-382) meets Stop's <-result (440).
StopAck ==
    /\ Up
    /\ supPc = "ack"
    /\ mainPc = "stop_wait"
    /\ supPc' = AfterAck
    /\ mainPc' = "stopped"
    /\ UNCHANGED <<command, done, timeFailed, runs, rl, daemon>>
    /\ UNCHANGED gitVars

\* ------------------------------------------------------------------- main
\* Reload(true) returned nil: the cron is started (457-464) and main waits
\* for a signal (466-468).
StartCron ==
    /\ Up
    /\ mainPc = "reload"
    /\ rl[0].pc = "ret_sent"
    /\ mainPc' = "serving"
    /\ UNCHANGED <<rl, daemon>>
    /\ UNCHANGED gitVars
    /\ UNCHANGED supVars

Returned == {"ret_noop", "ret_sent", "ret_err"}
InFlight(r) == rl[r].pc \in {"pull", "fetched", "impl", "send"}

\* The cron fires: Reload(false) starts in a goroutine of its own, whatever
\* the earlier ticks are doing.  seq records that every earlier Reload had
\* returned when this one began.
Tick(r) ==
    /\ Up
    /\ mainPc \in {"serving", "stop_send", "stop_wait", "stopped"}
    /\ rl[r].pc = "idle"
    /\ r > 1 => rl[r - 1].pc # "idle"
    /\ rl' = [rl EXCEPT ![r].pc = "pull",
                        ![r].seq = \A q \in Reloaders \ {r} : ~InFlight(q)]
    /\ UNCHANGED <<mainPc, daemon>>
    /\ UNCHANGED gitVars
    /\ UNCHANGED supVars

\* signal.Notify delivers an interrupt to main's <-killed (466-469), which
\* calls Stop: the send on the stop channel (439).
Signal ==
    /\ Up
    /\ mainPc = "serving"
    /\ mainPc' = "stop_send"
    /\ UNCHANGED <<rl, daemon>>
    /\ UNCHANGED gitVars
    /\ UNCHANGED supVars

\* Stop returned and main returns: the process exits.
MainExit ==
    /\ Up
    /\ mainPc = "stopped"
    /\ daemon' = "exited"
    /\ UNCHANGED <<rl, mainPc>>
    /\ UNCHANGED gitVars
    /\ UNCHANGED supVars

\* ------------------------------------------------------------------ system
Next ==
    \/ Push
    \/ \E r \in Reloaders, f \in FetchFailures : \E d \in ErrOutcomes(r) : GitPullFetch(r, f, d)
    \/ \E r \in Reloaders, f \in UpdateFailures : \E d \in ErrOutcomes(r) : GitPullUpdate(r, f, d)
    \/ \E r \in Reloaders, f \in ImplFailures : \E d \in ErrOutcomes(r) : reloadImpl(r, f, d)
    \/ \E r \in Reloaders, ok \in BOOLEAN : LaunchConsume(r, ok)
    \/ \E i \in RunIds, ok \in BOOLEAN : ExitConsume(i, ok)
    \/ \E i \in RunIds, code \in {"zero", "nonzero"} : ProcExit(i, code)
    \/ \E i \in RunIds : KillEffect(i)
    \/ StopConsume
    \/ StopAck
    \/ StartCron
    \/ \E r \in Ticks : Tick(r)
    \/ Signal
    \/ MainExit

Spec == Init /\ [][Next]_vars


\* The scheduling the Go runtime gives: a goroutine that can run does run, so
\* the loop receives a wait result that stays pending and a Stop that stays
\* pending, and the acknowledgment is delivered; a signalled group dies; a
\* command that always exits non-zero does exit.
CrashExit == \E i \in RunIds : Crashes(runs[i].Args[Len(runs[i].Args)]) /\ ProcExit(i, "nonzero")

FairSpec ==
    /\ Spec
    /\ WF_vars(\E i \in RunIds, ok \in BOOLEAN : ExitConsume(i, ok))
    /\ WF_vars(StopConsume)
    /\ WF_vars(StopAck)
    /\ WF_vars(\E i \in RunIds : KillEffect(i))
    /\ WF_vars(CrashExit)

\* ------------------------------------------------------------------ claims
LiveRuns == {i \in RunIds : Live(runs[i])}
StartedOn(ch) == {i \in RunIds : runs[i].chan = ch /\ runs[i].st # "nostart"}
Pending(i) == runs[i].wres \in {"nil", "exit", "err"}
MaxChan == MaxTicks + 1

\* C1: at most one process group started by the supervisor has live members
\* in any reachable state; a Launch consumed while a process runs starts the
\* new command only once the previous group has terminated.
C1_AtMostOneAlive == Cardinality(LiveRuns) <= 1

\* C2: a command that keeps exiting non-zero is re-launched exactly 3 times
\* (4 runs on its done channel); the failure after that ends the daemon with
\* log.Fatalf, there is never a 4th re-launch, and the daemon does not stay up
\* without running the command: the crash loop leads to the daemon's end
\* unless a Launch or a Stop comes first.
C2_Safety ==
    /\ timeFailed <= RetryLimit
    /\ Cardinality(StartedOn(done)) <= timeFailed + 1
    /\ (daemon = "fatal" /\ command.Process # 0)
          => /\ timeFailed = RetryLimit
             /\ Cardinality(StartedOn(done)) = RetryLimit + 1

C2_CrashLoop(ch) ==
    /\ Up
    /\ supPc = "select"
    /\ done = ch
    /\ command # NoCmd
    /\ Crashes(command.Args[Len(command.Args)])

C2_BoundedRetry ==
    /\ []C2_Safety
    /\ \A ch \in 1..MaxChan : C2_CrashLoop(ch) ~> (~Up \/ done # ch \/ supPc # "select")

C2_Witness ==
    /\ daemon = "fatal"
    /\ command.Process # 0
    /\ Crashes(command.Args[Len(command.Args)])
    /\ timeFailed = 3
    /\ Cardinality(StartedOn(done)) = 4

\* C3: when the loop receives the wait result of a clean exit (nil), it starts
\* nothing, the daemon stays up and the loop is back at its select.
C3_CleanExitIdle ==
    [][\A i \in RunIds :
          (runs[i].wres = "nil" /\ Len(runs') >= Len(runs) /\ runs'[i].wres = "taken")
             => /\ daemon' = "up"
                /\ supPc' = "select"
                /\ Len(runs') = Len(runs)]_vars

\* C4: every run on a done channel (the first start and each re-launch) has
\* the executable path and the argument vector of the command that the Launch
\* delivered, i.e. those of the first run on that channel.
C4_SameCommand ==
    \A i, j \in RunIds :
        runs[i].chan = runs[j].chan
           => runs[i].Path = runs[j].Path /\ runs[i].Args = runs[j].Args

\* C5: once a Launch has been consumed and no Stop, no group of an earlier
\* Launch has live members, and while the latest command's process runs it is
\* the only live group.
C5_LatestOnly ==
    (done >= 1 /\ supPc = "select" /\ Up)
       => /\ \A i \in LiveRuns : runs[i].chan = done
          /\ (command.Process # 0 /\ runs[command.Process].st = "alive")
                => LiveRuns = {command.Process}

\* C6: a caller of Stop gets its acknowledgment from any state of the loop,
\* also when the managed process has exited before the Stop is received (the
\* loop does not bring the daemon down under the blocked caller on receiving
\* that exit), and once Stop has returned the loop has signalled the current
\* group and returned.
C6_StopHandshake ==
    /\ ~(mainPc \in {"stop_send", "stop_wait"} /\ daemon = "nilpanic")
    /\ mainPc = "stopped"
          => /\ supPc = "returned"
             /\ command.Process # 0 => runs[command.Process].st # "alive"

\* The wait results of the runs on channel ch, in the order of their starts.
DoneWaiters(rs, ch) ==
    LET s == SelectSeq(rs, LAMBDA run : run.chan = ch)
    IN [k \in 1..Len(s) |-> s[k].wres]

\* C7: once the Stop has been acknowledged the loop is over: no run is
\* started, no wait result is received (a waiter may still get its result,
\* nobody takes it), no command is taken from the command channel (a Reload
\* blocked in its send stays blocked), and the loop's variables keep their
\* values.
C7_StoppedTerminal ==
    [][mainPc = "stopped"
         => /\ supPc' = "returned"
            /\ Len(runs') <= Len(runs)
            /\ <<done, timeFailed>>' = <<done, timeFailed>>
            /\ <<command.Path, command.Args>>' = <<command.Path, command.Args>>
            /\ LET old == DoneWaiters(runs, done)
                   new == DoneWaiters(runs', done)
               IN /\ Len(new) = Len(old)
                  /\ \A k \in 1..Len(old) : new[k] = old[k] \/ old[k] = "wait"
            /\ \A r \in Reloaders : rl[r].pc = "send" => rl'[r].pc = "send"]_vars

C7_Witness ==
    /\ mainPc = "stopped"
    /\ Up
    /\ \E r \in Reloaders : rl[r].pc = "send"
    /\ \E i \in RunIds : runs[i].chan = done /\ Pending(i)

\* C8 as stated: the second of two consecutive Reload(false) calls with an
\* unchanged remote (here: the remote never moved, and the call began after
\* every earlier call had returned) has returned success without an update.
C8_SecondCallSucceeds ==
    \A r \in Ticks :
        (r > 1 /\ rl[r].seq /\ remoteTip = 1 /\ rl[r].pc \in Returned)
           => rl[r].pc = "ret_noop"

\* C8 as amended: a Reload(false) whose fetch returns the commit of the last
\* GitPull that succeeded ends its GitPull without an update: it returns nil
\* having reported updated = false, or it returns the error of a failed
\* lookup; either way nothing is checked out, the local branch is not moved
\* and nothing is sent to the supervisor, then or later.
C8_IdempotentNoop ==
    [][\A r \in Ticks :
          /\ (rl[r].pc = "fetched" /\ rl'[r].pc # "fetched" /\ lastPulled = rl[r].commit)
                => /\ rl'[r].pc \in {"ret_noop", "ret_err"}
                   /\ ~rl'[r].upd
                   /\ <<appDir, localBranch>>' = <<appDir, localBranch>>
                   /\ supVars' = supVars
          /\ rl[r].pc = "ret_noop" => rl'[r] = rl[r]]_vars

C8_Witness ==
    \E r \in Ticks :
        /\ r > 1
        /\ rl[r].seq
        /\ rl[r].pc = "ret_noop"
        /\ rl[r - 1].pc = "ret_noop"
        /\ lastPulled = remoteTip

\* C9: a GitPull that returns a nil error returns hasUpdate = TRUE exactly
\* when there was no local branch or its tip differed from the fetched remote
\* commit; afterwards the local tip is that commit, and with hasUpdate = FALSE
\* the local branch is what it was.
C9_GitPull ==
    [][\A r \in Reloaders :
          (rl[r].pc = "fetched" /\ rl'[r].pc \in {"impl", "ret_noop"})
             => /\ rl'[r].upd = (localBranch = NoBranch \/ localBranch # rl[r].commit)
                /\ localBranch' = rl[r].commit
                /\ ~rl'[r].upd => localBranch' = localBranch]_vars

C9_Witness ==
    /\ \E r \in Reloaders : rl[r].pc = "ret_noop" /\ ~rl[r].upd
    /\ \E r \in Ticks : rl[r].pc = "impl" /\ rl[r].upd
    /\ localBranch = remoteTip
    /\ remoteTip > 1

\* C10: a GitPull that returns an error has left the local branch as it was:
\* none created, the pointer not moved.
C10_ErrorLeavesLocal ==
    [][\A r \in Reloaders :
          (rl[r].pc \in {"pull", "fetched"} /\ rl'[r].pc = "ret_err")
             => localBranch' = localBranch]_vars

\* C11: a Reload that returns an error has sent no Launch: its returning
\* step leaves the supervisor's command, done channel, failure counter and
\* processes as they are; a Reload that has sent its command returns nil; a
\* Reload goes on to reloadImpl only after a GitPull without error (the local
\* branch is at the fetched commit); and every Launch the loop consumes is the
\* command of a Reload that was blocked in its send and now returns nil.
C11_ErrorSendsNothing ==
    [][/\ \A r \in Reloaders :
             /\ (rl[r].pc # "ret_err" /\ rl'[r].pc = "ret_err")
                   => /\ rl[r].pc \in {"pull", "fetched", "impl"}
                      /\ supVars' = supVars
             /\ (rl[r].pc = "fetched" /\ rl'[r].pc = "impl")
                   => /\ localBranch' = rl[r].commit
                      /\ lastPulled' = rl[r].commit
             /\ rl[r].pc = "ret_err" => rl'[r].pc = "ret_err"
       /\ done' # done
             => \E r \in Reloaders :
                   /\ rl[r].pc = "send"
                   /\ rl'[r].pc = "ret_sent"
                   /\ \A q \in Reloaders \ {r} : rl'[q] = rl[q]]_vars

C11_Witness ==
    /\ Up
    /\ \E r \in Ticks : rl[r].pc = "ret_err"
    /\ command.Process # 0
    /\ runs[command.Process].st = "alive"
    /\ timeFailed >= 1

\* C12: a deployment that failed before its Launch is retried by the next
\* tick: when the latest Reload(false), begun after every earlier Reload had
\* returned (one of them with an error), has returned without action, with
\* the remote still at the revision that was pulled last, then that revision
\* is the one checked out in the application directory.
C12_NextTickRetries ==
    \A r \in Ticks :
        ( /\ Up
          /\ rl[r].seq
          /\ rl[r].pc = "ret_noop"
          /\ (r = MaxTicks \/ rl[r + 1].pc = "idle")
          /\ \A q \in Reloaders : ~InFlight(q)
          /\ \E q \in Ticks : rl[q].pc = "ret_err"
          /\ lastPulled = remoteTip )
           => appDir = remoteTip

\* C13: the daemon ends only by the supervisor's log.Fatalf or, after a
\* signal, by main's return once Stop was acknowledged (the loop has returned
\* after signalling the current group); neither a Reload error nor a clean
\* exit of the managed process ends it.
C13_OnlyFatalOrSignal ==
    /\ daemon \in {"up", "fatal", "exited"}
    /\ daemon = "exited" => (mainPc = "stopped" /\ supPc = "returned")

\* C14 as stated: the loop re-launches for the first 2 retries only: the
\* failure counter never exceeds 2 and a done channel never sees more than 3
\* starts.
C14_TwoRetriesOnly ==
    /\ timeFailed <= 2
    /\ Cardinality(StartedOn(done)) <= 3

\* The loop has received every result it will retry on channel ch.
C14_Exhausted(ch) ==
    /\ Up
    /\ supPc = "select"
    /\ done = ch
    /\ timeFailed = RetryLimit
    /\ \E i \in RunIds : runs[i].chan = ch /\ Pending(i)

\* C14 as amended: in a crash loop the loop re-launches on each of the first
\* 3 non-zero exits (the counter goes up by one, the daemon stays up, one more
\* start is made); on the 4th it re-launches nothing and leaves the counter,
\* and from there the daemon ends unless a Launch or a Stop is consumed first.
C14_ThreeRetriesThenFatal ==
    /\ [][\A i \in RunIds :
             ( /\ runs[i].chan = done
               /\ runs[i].wres = "exit"
               /\ done' = done
               /\ Len(runs') >= Len(runs)
               /\ runs'[i].wres \in {"taken", "err"} )
                => IF timeFailed < RetryLimit
                     THEN /\ timeFailed' = timeFailed + 1
                          /\ daemon' = "up"
                          /\ Len(runs') = Len(runs) + 1
                          /\ runs'[Len(runs')].chan = done
                     ELSE /\ timeFailed' = timeFailed
                          /\ Len(runs') = Len(runs)
                          /\ runs'[i].wres = "err"]_vars
    /\ \A ch \in 1..MaxChan :
          C14_Exhausted(ch) ~> (~Up \/ done # ch \/ supPc # "select")

C14_Witness ==
    /\ daemon = "fatal"
    /\ timeFailed = RetryLimit
    /\ Cardinality({i \in RunIds : runs[i].chan = done /\ runs[i].wres = "taken"})
          = RetryLimit + 1

\* The runs on channel ch: the first start of a Launch and its re-launches,
\* whether Start succeeded or not.
C15_RunsOn(rs, ch) == SelectSeq(rs, LAMBDA run : run.chan = ch)

\* C15: consuming a Launch sets the failure counter to 0 whatever it was and
\* leaves exactly one start (of the Launch's command) on the new done
\* channel; the counter stays within 0..3 and is the number of re-launches
\* made since the most recent Launch.
C15_CounterPerLaunch ==
    /\ [](timeFailed \in 0..RetryLimit)
    /\ [](done >= 1 => Len(C15_RunsOn(runs, done)) = timeFailed + 1)
    /\ [][done' # done
            => /\ timeFailed' = 0
               /\ Len(C15_RunsOn(runs', done')) = 1
               /\ \E r \in Reloaders :
                     /\ rl[r].pc = "send"
                     /\ rl'[r].pc = "ret_sent"
                     /\ runs'[Len(runs')].Args = rl[r].cmd.Args
                     /\ runs'[Len(runs')].chan = done'
                     /\ command'.Args = rl[r].cmd.Args]_vars

C15_Witness ==
    /\ Up
    /\ done = 2
    /\ timeFailed = 0
    /\ \E i \in RunIds : runs[i].chan = 1 /\ Len(runs[i].Args) > 3
    /\ \E j \in RunIds : runs[j].chan = 2 /\ runs[j].st = "alive"

\* Launch r is consumed in this step.
C16_Consumed(r) == rl[r].pc = "send" /\ rl'[r].pc = "ret_sent"

\* C16: a Launch and the exit notification of the process it supersedes do
\* not race.  Whatever was pending when a Launch is consumed, the loop then
\* receives from a channel that carries the start of the new command and
\* nothing older, with the counter at 0; whenever the counter changes, a run
\* is started or the loop ends the daemon, that step is the consumption of a
\* Launch or of a wait result of the current channel, never of a run that a
\* Launch superseded; and when the loop takes the exit (clean or non-zero)
\* while a Launch is pending, the daemon stays up and the Launch stays
\* pending, to be consumed next.
C16_NoRace ==
    /\ [](\A i \in RunIds : runs[i].chan # done => runs[i].wres # "taken")
    /\ [][/\ (\E r \in Reloaders : C16_Consumed(r))
               => /\ timeFailed' = 0
                  /\ \A j \in 1..Len(runs') :
                        runs'[j].chan = done' => j = Len(runs')
                  /\ runs'[Len(runs')].chan = done'
                  /\ runs'[Len(runs')].wres \in {"wait", "err"}
                  /\ \A r \in Reloaders :
                        C16_Consumed(r) => runs'[Len(runs')].Args = rl[r].cmd.Args
          /\ ( \/ timeFailed' # timeFailed
               \/ Len(runs') > Len(runs)
               \/ (Up /\ daemon' \in {"fatal", "nilpanic"}) )
               => \/ \E r \in Reloaders : C16_Consumed(r)
                  \/ /\ done' = done
                     /\ \E i \in RunIds :
                           /\ runs[i].chan = done
                           /\ Pending(i)
                           /\ runs'[i].wres # runs[i].wres
          /\ \A i \in RunIds, r \in Reloaders :
                ( /\ rl[r].pc = "send"
                  /\ runs[i].chan = done
                  /\ runs[i].wres \in {"nil", "exit"}
                  /\ done' = done
                  /\ Len(runs') >= Len(runs)
                  /\ runs'[i].wres # runs[i].wres )
                   => /\ daemon' = "up"
                      /\ rl'[r].pc = "send"]_vars

\* The select is fair to the command channel: a Reload that stays blocked in
\* its send while the loop keeps coming back to the select is received from.
LaunchFairSpec ==
    /\ FairSpec
    /\ \A r \in Reloaders : WF_vars(\E ok \in BOOLEAN : LaunchConsume(r, ok))

\* C17: Reload returns nil from its send exactly in the step in which the
\* loop receives the command, and in that step the loop calls Start for it
\* (the new run is the last of the table, on the new done channel, and it may
\* still be running when Reload has returned); and while the daemon is up and
\* the loop has not consumed a Stop, a Reload blocked in its send is
\* eventually received from.
C17_LaunchAccepted ==
    /\ [][\A r \in Reloaders :
             (rl[r].pc # "ret_sent" /\ rl'[r].pc = "ret_sent")
                => /\ rl[r].pc = "send"
                   /\ supPc = "select"
                   /\ done' # done
                   /\ Len(runs') >= 1
                   /\ runs'[Len(runs')].chan = done'
                   /\ runs'[Len(runs')].Path = rl[r].cmd.Path
                   /\ runs'[Len(runs')].Args = rl[r].cmd.Args
                   /\ runs'[Len(runs')].wres \in {"wait", "err"}]_vars
    /\ \A r \in Reloaders :
          (rl[r].pc = "send") ~> (rl[r].pc = "ret_sent" \/ ~Up \/ supPc # "select")

C17_Witness ==
    /\ Up
    /\ supPc = "select"
    /\ \E r \in Ticks : rl[r].pc = "ret_sent"
    /\ command.Process # 0
    /\ runs[command.Process].st = "alive"
    /\ runs[command.Process].wres = "wait"
    /\ done >= 2

\* C18: when the loop receives a wait result that is an error but not an exit
\* status (also the one of a command whose Start failed), that step ends the
\* daemon with log.Fatalf: nothing is started, the command and the failure
\* counter are left as they are, whatever the counter's value.
C18_WaitErrorFatal ==
    [][\A i \in RunIds :
          ( /\ Up
            /\ runs[i].chan = done
            /\ runs[i].wres = "err"
            /\ done' = done
            /\ Len(runs') >= Len(runs)
            /\ runs'[i].wres # "err" )
             => /\ daemon' = "fatal"
                /\ runs' = [runs EXCEPT ![i].wres = "taken"]
                /\ <<timeFailed, command>>' = <<timeFailed, command>>]_vars

\* Fatal on the wait error of a re-launch whose Start failed, counter at 1.
C18_Witness ==
    /\ daemon = "fatal"
    /\ timeFailed = 1
    /\ command.Process = 0
    /\ \E i \in RunIds :
          /\ runs[i].chan = done
          /\ runs[i].st = "nostart"
          /\ runs[i].wres = "taken"

\* C19: at most one Reload is in flight at any time: a tick that fires while
\* an earlier Reload has not returned does not run beside it.
C19_OneReloadInFlight ==
    Cardinality({r \in Reloaders : InFlight(r)}) <= 1

\* C20: when the loop calls mayKillCommand (in the Launch case or the Stop
\* case) with a command whose Process is set, that process is one the loop
\* started and that is not yet reaped, so the group lookup succeeds and the
\* signal goes to that group.
C20_KillOnlyLiveGroup ==
    [][( /\ Up
         /\ supPc = "select"
         /\ \/ done' # done
            \/ supPc' # "select"
         /\ command # NoCmd
         /\ command.Process # 0 )
          => /\ command.Process \in RunIds
             /\ runs[command.Process].st = "alive"]_vars

=============================================================================
